---- MODULE Spec2Model ----
(***************************************************************************)
(* A model of src/src/App.tsx: the React component App, its state, refs,   *)
(* event handlers and effects, with the browser facilities it uses         *)
(* (localStorage, setTimeout, fetch, the Leaflet map) as state.            *)
(*                                                                         *)
(* Conventions.                                                            *)
(*  - A JavaScript string is a tuple of one-character strings.             *)
(*  - A JavaScript number is <<v>> for a finite value and <<>> for NaN;    *)
(*    v is a fixed-point integer in units of 1/Scale.                      *)
(*  - A nullable value is <<>> (null) or <<x>>.                            *)
(*  - One action is one event-loop task: the handler, the re-render it     *)
(*    causes and the effects of that commit (operator Commit).             *)
(***************************************************************************)
EXTENDS Integers, Sequences, FiniteSets, TLC

(***************************************************************************)
(* Bounds of the model.                                                    *)
(***************************************************************************)
\* Fractional decimal digits a number carries.
FracDigits == 1
\* Largest value of the millisecond clock.
MaxClock == 2
\* Largest number of points the Save button is pressed into.
MaxSaved == 2
\* Largest number of pending 100 ms timers.
MaxTimers == 2
\* Largest number of search requests in flight.
MaxRequests == 2
\* Zoom levels below the initial one the user can zoom out to.
ZoomOut == 1
\* The map centre can be dragged over 0..MaxCenter degrees on each axis.
MaxCenter == 1

Scale == 10 ^ FracDigits

(***************************************************************************)
(* Options and numbers.                                                    *)
(***************************************************************************)
Null == <<>>
Some(x) == <<x>>
NaN == <<>>
Num(v) == <<v>>
IsNaN(x) == x = NaN
Val(x) == x[1]

(***************************************************************************)
(* Strings.                                                                *)
(***************************************************************************)
Digits == <<"0", "1", "2", "3", "4", "5", "6", "7", "8", "9">>
DigitSet == {Digits[i] : i \in 1..10}
IsDigit(c) == c \in DigitSet
DigitVal(c) == (CHOOSE i \in 1..10 : Digits[i] = c) - 1
Space == " "

\* The first index >= i of s whose character is not in cs (Len(s)+1 if none).
RECURSIVE SkipWhile(_, _, _)
SkipWhile(s, i, cs) ==
    IF i <= Len(s) /\ s[i] \in cs THEN SkipWhile(s, i + 1, cs) ELSE i

\* The last index <= i of s whose character is not a space (0 if none).
RECURSIVE SkipBack(_, _)
SkipBack(s, i) ==
    IF i >= 1 /\ s[i] = Space THEN SkipBack(s, i - 1) ELSE i

\* String.prototype.trim
Trim(s) ==
    LET a == SkipWhile(s, 1, {Space})
        b == SkipBack(s, Len(s))
    IN  IF a > b THEN <<>> ELSE SubSeq(s, a, b)

\* The first index >= i of s holding character c (0 if none).
RECURSIVE IndexOf(_, _, _)
IndexOf(s, c, i) ==
    IF i > Len(s) THEN 0 ELSE IF s[i] = c THEN i ELSE IndexOf(s, c, i + 1)

\* String.prototype.split(",")
RECURSIVE Split(_)
Split(s) ==
    LET i == IndexOf(s, ",", 1)
    IN  IF i = 0 THEN <<s>>
        ELSE <<SubSeq(s, 1, i - 1)>> \o Split(SubSeq(s, i + 1, Len(s)))

\* The value of a run of decimal digits.
RECURSIVE DigitsVal(_)
DigitsVal(ds) ==
    IF ds = <<>> THEN 0
    ELSE 10 * DigitsVal(SubSeq(ds, 1, Len(ds) - 1)) + DigitVal(ds[Len(ds)])

\* The first FracDigits digits of a fraction, as units of 1/Scale.
RECURSIVE FracVal(_, _)
FracVal(ds, k) ==
    IF k = 0 THEN 0
    ELSE (IF ds = <<>> THEN 0 ELSE DigitVal(ds[1]) * 10 ^ (k - 1))
         + FracVal(IF ds = <<>> THEN ds ELSE Tail(ds), k - 1)

\* parseFloat: leading white space, an optional sign, digits, an optional
\* fraction; the longest such prefix; NaN when it holds no digit.
ParseFloat(s) ==
    LET a == SkipWhile(s, 1, {Space})
        neg == a <= Len(s) /\ s[a] = "-"
        b == IF neg THEN a + 1 ELSE a
        c == SkipWhile(s, b, DigitSet)
        dot == c <= Len(s) /\ s[c] = "."
        d == IF dot THEN SkipWhile(s, c + 1, DigitSet) ELSE c
        ip == SubSeq(s, b, c - 1)
        fp == IF dot THEN SubSeq(s, c + 1, d - 1) ELSE <<>>
        mag == DigitsVal(ip) * Scale + FracVal(fp, FracDigits)
    IN  IF ip = <<>> /\ fp = <<>> THEN NaN
        ELSE Num(IF neg THEN 0 - mag ELSE mag)

\* Number.prototype.toString of a non-negative integer.
RECURSIVE IntToString(_)
IntToString(n) ==
    IF n < 10 THEN <<Digits[n + 1]>>
    ELSE IntToString(n \div 10) \o <<Digits[(n % 10) + 1]>>

\* The digits of fraction f (k digits wide) without trailing zeros.
RECURSIVE FracToString(_, _)
FracToString(f, k) ==
    IF f = 0 \/ k = 0 THEN <<>>
    ELSE <<Digits[(f \div 10 ^ (k - 1)) + 1]>> \o FracToString(f % 10 ^ (k - 1), k - 1)

\* `${x}` of a number.
NumberToString(x) ==
    IF IsNaN(x) THEN <<"N", "a", "N">>
    ELSE LET v == Val(x)
             m == IF v < 0 THEN 0 - v ELSE v
             f == FracToString(m % Scale, FracDigits)
         IN  (IF v < 0 THEN <<"-">> ELSE <<>>) \o IntToString(m \div Scale)
             \o (IF f = <<>> THEN <<>> ELSE <<".">> \o f)

\* coords.match(/^-?\d+\.?\d*,\s*-?\d+\.?\d*$/)
CoordMatch(s) ==
    LET a == IF 1 <= Len(s) /\ s[1] = "-" THEN 2 ELSE 1
        b == SkipWhile(s, a, DigitSet)
        c == IF b <= Len(s) /\ s[b] = "." THEN b + 1 ELSE b
        d == SkipWhile(s, c, DigitSet)
        e == SkipWhile(s, d + 1, {Space})
        f == IF e <= Len(s) /\ s[e] = "-" THEN e + 1 ELSE e
        g == SkipWhile(s, f, DigitSet)
        h == IF g <= Len(s) /\ s[g] = "." THEN g + 1 ELSE g
        i == SkipWhile(s, h, DigitSet)
    IN  /\ b > a
        /\ d <= Len(s) /\ s[d] = ","
        /\ g > f
        /\ i = Len(s) + 1

(***************************************************************************)
(* Data: SavedCoord, LocationData, Place, and JSON documents.              *)
(***************************************************************************)
\* interface SavedCoord; description is optional.
SavedCoord(id, la, lo, name, description) ==
    [id |-> id, lat |-> la, lon |-> lo, name |-> name, description |-> description]

\* A JSON object is a sequence of members <<key, kind, text>> in insertion
\* order; a number is written as its decimal text, an undefined member is
\* left out.
JSON_stringifyCoord(c) ==
    <<  <<"id", "string", c.id>>,
        <<"lat", "number", NumberToString(c.lat)>>,
        <<"lon", "number", NumberToString(c.lon)>>,
        <<"name", "string", c.name>> >>
    \o (IF c.description = Null THEN <<>>
        ELSE << <<"description", "string", c.description[1]>> >>)

\* JSON.stringify(savedCoords): a document is valid JSON text or not.
JSON_stringify(cs) ==
    [valid |-> TRUE, items |-> [i \in 1..Len(cs) |-> JSON_stringifyCoord(cs[i])]]

CorruptItem == [valid |-> FALSE, items |-> <<>>]

HasMember(o, key) == \E i \in 1..Len(o) : o[i][1] = key
Member(o, key) == o[CHOOSE i \in 1..Len(o) : o[i][1] = key][3]

JSON_parseCoord(o) ==
    SavedCoord(Member(o, "id"), ParseFloat(Member(o, "lat")), ParseFloat(Member(o, "lon")),
               Member(o, "name"),
               IF HasMember(o, "description") THEN Some(Member(o, "description")) ELSE Null)

\* JSON.parse of a valid document.
JSON_parse(doc) == [i \in 1..Len(doc.items) |-> JSON_parseCoord(doc.items[i])]

\* The useState initializer of savedCoords: the stored collection, [] when
\* nothing is stored or the stored text does not parse.
InitialSavedCoords(item) ==
    IF item = Null THEN <<>>
    ELSE IF item[1].valid THEN JSON_parse(item[1]) ELSE <<>>

\* interface LocationData
LocationData(name, la, lo, description) ==
    [name |-> name, lat |-> la, lon |-> lo, description |-> description]

\* locations.map(...): the bundled records as SavedCoords, lat and lon swapped.
LocationId(location) ==
    <<"l", "o", "c", "a", "t", "i", "o", "n", "-">> \o NumberToString(location.lon)
    \o <<"-">> \o NumberToString(location.lat)

NewCoords(locations) ==
    [i \in 1..Len(locations) |->
        SavedCoord(LocationId(locations[i]), locations[i].lon, locations[i].lat,
                   locations[i].name, Some(locations[i].description))]

\* MergeLocations without the check of the ids already there.
MergeLocations_NoFilter(prev, newCoords) == prev \o newCoords

\* The updater handed to setSavedCoords by loadLocations.
MergeLocations(prev, newCoords) ==
    LET existingIds == {prev[i].id : i \in 1..Len(prev)}
        toAdd == SelectSeq(newCoords, LAMBDA coord : coord.id \notin existingIds)
    IN  prev \o toAdd

\* interface Place; lat and lon are numeric strings.
Place(display_name, la, lo) == [display_name |-> display_name, lat |-> la, lon |-> lo]

(***************************************************************************)
(* State.                                                                  *)
(***************************************************************************)
VARIABLES
    coords, lat, lon, suggestions, showSuggestions, selectedIndex, savedCoords,
    mapRef, markersRef, currentLocationMarkerRef,
    localStorage,   \* the item under "savedCoords": Null or a document
    searchTimers,   \* pending 300 ms timers, oldest first: the coords each closes over
    mapTimers,      \* pending 100 ms timers, oldest first: the savedCoords each closes over
    requests,       \* search requests in flight, oldest first
    locationsFetch, \* "pending" until fetch("/data/locations.json") settles
    locationsFile,  \* the content of /data/locations.json
    now,            \* Date.now()
    lastId,         \* the identity last given to a Leaflet object
    alerted,        \* the task run last ended in alert(...)
    committed,      \* history: a suggestion was committed and the input not edited since
    deleted,        \* history: the ids removed by Delete and not given to a new point since
    latestQuery,    \* history: the query of the request issued last
    shownFor        \* history: the query whose response filled suggestions

vars == <<coords, lat, lon, suggestions, showSuggestions, selectedIndex, savedCoords,
          mapRef, markersRef, currentLocationMarkerRef, localStorage, searchTimers,
          mapTimers, requests, locationsFetch, locationsFile, now, lastId,
          alerted, committed, deleted, latestQuery, shownFor>>

searchVars == <<suggestions, showSuggestions, selectedIndex, requests, latestQuery, shownFor>>

(***************************************************************************)
(* The Leaflet map (L.Map), as far as App uses it.                         *)
(***************************************************************************)
\* zoom: 13 in the options of L.map
InitialZoom == 13
\* Object identities are reused modulo Identities.
Identities == 3
NextId(id) == (id % Identities) + 1

\* Half the extent of the view, in units of 1/Scale: it doubles per zoom level.
HalfSpan(zoom) == Scale * 2 ^ (InitialZoom - zoom)

\* mapRef.current.getBounds() as newBbox
GetBounds(map) ==
    [minLon |-> map.center[2] - HalfSpan(map.zoom),
     minLat |-> map.center[1] - HalfSpan(map.zoom),
     maxLon |-> map.center[2] + HalfSpan(map.zoom),
     maxLat |-> map.center[1] + HalfSpan(map.zoom)]

TileLayer == [kind |-> "tile", lat |-> NaN, lon |-> NaN, id |-> 0]
\* L.circleMarker([coord.lat, coord.lon], ...)
CircleMarker(coord) == [kind |-> "circle", lat |-> coord.lat, lon |-> coord.lon, id |-> 0]
\* L.marker([lat, lon], { icon })
Marker(la, lo, id) == [kind |-> "marker", lat |-> la, lon |-> lo, id |-> id]

\* L.map(container, {center, zoom}) with the tile layer added and the three
\* listeners bound to handleMapViewChange, a closure over savedCoords.
NewMap(id, la, lo, closure) ==
    [id |-> id, center |-> <<Val(la), Val(lo)>>, zoom |-> InitialZoom,
     layers |-> <<TileLayer>>, listener |-> closure, moving |-> FALSE]

\* map.removeLayer(layer): the layer leaves the map; nothing if it is not on it.
RECURSIVE RemoveLayer(_, _)
RemoveLayer(layers, layer) ==
    IF layers = <<>> THEN <<>>
    ELSE IF Head(layers) = layer THEN Tail(layers)
    ELSE <<Head(layers)>> \o RemoveLayer(Tail(layers), layer)

RECURSIVE RemoveLayers(_, _)
RemoveLayers(layers, markers) ==
    IF markers = <<>> THEN layers
    ELSE RemoveLayers(RemoveLayer(layers, Head(markers)), Tail(markers))

\* The refs and timers the map effects work on, as one record.
Refs == [map |-> mapRef, markers |-> markersRef, clm |-> currentLocationMarkerRef,
         timers |-> mapTimers, lastId |-> lastId]

(***************************************************************************)
(* handleMapViewChange and the map effects.                                *)
(***************************************************************************)
\* VisibleCoords with the northern and eastern bounds left out.
VisibleCoords_Strict(saved, newBbox) ==
    SelectSeq(saved, LAMBDA coord :
        /\ ~IsNaN(coord.lat) /\ ~IsNaN(coord.lon)
        /\ Val(coord.lat) >= newBbox.minLat
        /\ Val(coord.lat) < newBbox.maxLat
        /\ Val(coord.lon) >= newBbox.minLon
        /\ Val(coord.lon) < newBbox.maxLon)

\* savedCoords.filter(...) of handleMapViewChange
VisibleCoords(saved, newBbox) ==
    SelectSeq(saved, LAMBDA coord :
        /\ ~IsNaN(coord.lat) /\ ~IsNaN(coord.lon)
        /\ Val(coord.lat) >= newBbox.minLat
        /\ Val(coord.lat) <= newBbox.maxLat
        /\ Val(coord.lon) >= newBbox.minLon
        /\ Val(coord.lon) <= newBbox.maxLon)

\* HandleMapViewChange without the removal of the markers drawn before.
HandleMapViewChange_KeepsOld(r, saved) ==
    IF r.map = Null THEN r
    ELSE LET map == r.map[1]
             visibleCoords == VisibleCoords(saved, GetBounds(map))
             markers == [i \in 1..Len(visibleCoords) |-> CircleMarker(visibleCoords[i])]
         IN  [r EXCEPT !.map = Some([map EXCEPT !.layers = map.layers \o markers]),
                       !.markers = markers]

\* HandleMapViewChange setting the view again once it has drawn the markers.
HandleMapViewChange_Recenters(r, saved) ==
    IF r.map = Null THEN r
    ELSE LET map == r.map[1]
             visibleCoords == VisibleCoords(saved, GetBounds(map))
             markers == [i \in 1..Len(visibleCoords) |-> CircleMarker(visibleCoords[i])]
         IN  [r EXCEPT !.map = Some([map EXCEPT
                           !.layers = RemoveLayers(map.layers, r.markers) \o markers,
                           !.moving = TRUE]),
                       !.markers = markers]

\* handleMapViewChange, a closure over `saved`, run on refs r.
HandleMapViewChange(r, saved) ==
    IF r.map = Null THEN r
    ELSE LET map == r.map[1]
             visibleCoords == VisibleCoords(saved, GetBounds(map))
             markers == [i \in 1..Len(visibleCoords) |-> CircleMarker(visibleCoords[i])]
         IN  [r EXCEPT !.map = Some([map EXCEPT
                           !.layers = RemoveLayers(map.layers, r.markers) \o markers]),
                       !.markers = markers]

\* The cleanup of the effect "Initialize Leaflet map".
MapCleanup(r) ==
    IF r.map # Null
    THEN [r EXCEPT !.map = Null, !.markers = <<>>, !.clm = Null]
    ELSE r

\* The effect "Initialize Leaflet map"; the container is rendered when lat
\* and lon are set.
MapInit(r, la, lo, saved) ==
    IF r.map = Null /\ la # Null /\ lo # Null
    THEN [r EXCEPT !.map = Some(NewMap(NextId(r.lastId), la[1], lo[1], saved)),
                   !.lastId = NextId(r.lastId),
                   !.timers = Append(r.timers, saved)]
    ELSE r

\* map.setView(center, zoom): the view is set and a moveend event follows.
SetView(map, la, lo, zoom) ==
    [map EXCEPT !.center = <<Val(la), Val(lo)>>, !.zoom = zoom, !.moving = TRUE]

\* marker.setLatLng: the marker moves, on the map too.
MoveMarker(layers, marker, moved) ==
    [i \in 1..Len(layers) |-> IF layers[i] = marker THEN moved ELSE layers[i]]

\* The effect "Update map center when lat/lon changes".
MapUpdate(r, la, lo, saved) ==
    IF r.map # Null /\ la # Null /\ lo # Null
    THEN LET map == SetView(r.map[1], la[1], lo[1], r.map[1].zoom)
             moved == Marker(la[1], lo[1], r.clm[1].id)
             created == Marker(la[1], lo[1], NextId(r.lastId))
             r1 == IF r.clm # Null
                   THEN [r EXCEPT !.map = Some([map EXCEPT
                                      !.layers = MoveMarker(map.layers, r.clm[1], moved)]),
                                  !.clm = Some(moved)]
                   ELSE [r EXCEPT !.map = Some([map EXCEPT
                                      !.layers = Append(map.layers, created)]),
                                  !.clm = Some(created),
                                  !.lastId = NextId(r.lastId)]
         IN  HandleMapViewChange(r1, saved)
    ELSE r

\* The effect "Update markers when saved coordinates change".
MarkersUpdate(r, saved) ==
    IF r.map # Null THEN HandleMapViewChange(r, saved) ELSE r

\* ClearTimeout that clears nothing.
ClearTimeout_Noop(timers) == timers

\* clearTimeout(timeoutId) in the cleanup of the search effect: timeoutId is
\* the timer set last; nothing happens if it has fired.
ClearTimeout(timers) ==
    IF timers = <<>> THEN timers ELSE SubSeq(timers, 1, Len(timers) - 1)

\* Persist writing the last point only.
Persist_Delta(saved) ==
    Some(JSON_stringify(IF saved = <<>> THEN saved ELSE <<saved[Len(saved)]>>))

\* The effect "Persist saved coordinates to localStorage".
Persist(saved) == Some(JSON_stringify(saved))

\* The commit that follows a handler's state updates: the effects whose
\* dependencies changed, cleanups first.  savedSet says that setSavedCoords
\* was given a new array (which also renews handleMapViewChange).
Commit(savedSet) ==
    LET mapDeps == savedSet \/ lat' # lat \/ lon' # lon
        r1 == IF mapDeps
              THEN MapUpdate(MapInit(MapCleanup(Refs), lat', lon', savedCoords'),
                             lat', lon', savedCoords')
              ELSE Refs
        r2 == IF savedSet THEN MarkersUpdate(r1, savedCoords') ELSE r1
    IN  /\ localStorage' = IF savedSet THEN Persist(savedCoords') ELSE localStorage
        /\ searchTimers' = IF coords' # coords
                           THEN Append(ClearTimeout(searchTimers), coords')
                           ELSE searchTimers
        /\ \E r \in {r2} :
              /\ Len(r.timers) <= MaxTimers
              /\ mapRef' = r.map
              /\ markersRef' = r.markers
              /\ currentLocationMarkerRef' = r.clm
              /\ mapTimers' = r.timers
              /\ lastId' = r.lastId

(***************************************************************************)
(* Inputs.                                                                 *)
(***************************************************************************)
\* Texts typed into the input in the store specification.
StoreInputs == { <<>>, <<"1", ",", "2">> }

\* Texts typed into the input in the map specification.
MapInputs == { <<"1", ",", "2">> }

\* Texts typed into the input in the search specification.
SearchInputs ==
    { <<>>, <<" ", "a", "b", " ">>, <<"a", "b", "c">>,
      <<"-", "1", ".", "5", ",", " ", "2">>, <<"1", ",", "2", "a">> }

\* Texts typed into the input in the parser specification: pairs, texts
\* with a third part or with trailing letters, and texts with no number.
ParserInputs ==
    { <<"1", ",", "2">>, <<"-", "1", ".", "5", ",", " ", "2">>,
      <<"1", ",", "2", ",", "3">>, <<"1", "a", ",", "2">>,
      <<"a", "b", "c">>, <<"a", ",", "2">> }

\* What the geocoding service may answer.
Tlv == Place(<<"t", "l", "v">>, <<"1">>, <<"2">>)
Jaffa == Place(<<"j", "a", "f">>, <<"1", ".", "0">>, <<"2">>)
SearchResults == { <<>>, <<Tlv, Jaffa>> }

\* Contents of /data/locations.json.
FarLocation == LocationData(<<"f">>, Num(3 * Scale), Num(0), <<"d">>)
LocationFiles == { <<FarLocation>> }

(***************************************************************************)
(* Mount.                                                                  *)
(***************************************************************************)
\* The state after the first render and its effects, the page holding
\* `item` under "savedCoords": the fetch of the bundled locations is under
\* way, the collection is persisted, the first search timer is pending.
Mount(item) ==
    /\ coords = <<>>
    /\ lat = Null
    /\ lon = Null
    /\ suggestions = <<>>
    /\ showSuggestions = FALSE
    /\ selectedIndex = -1
    /\ savedCoords = InitialSavedCoords(item)
    /\ mapRef = Null
    /\ markersRef = <<>>
    /\ currentLocationMarkerRef = Null
    /\ localStorage = Persist(InitialSavedCoords(item))
    /\ searchTimers = << <<>> >>
    /\ mapTimers = <<>>
    /\ requests = <<>>
    /\ locationsFetch = "pending"
    /\ lastId = 0
    /\ alerted = FALSE
    /\ committed = FALSE
    /\ deleted = {}
    /\ latestQuery = Null
    /\ shownFor = Null

Init ==
    /\ \E item \in {Null, Some(CorruptItem)} : Mount(item)
    /\ locationsFile \in LocationFiles
    /\ now = 1

\* Collections an earlier visit may have left in localStorage, and bundled
\* files, for the specification of the merge.
UserPoint == SavedCoord(<<"1">>, Num(Scale), Num(2 * Scale), <<"1", ",", "2">>, Null)
FarPoint == SavedCoord(<<"l", "o", "c", "a", "t", "i", "o", "n", "-", "0", "-", "3">>,
                       Num(0), Num(3 * Scale), <<"f">>, Some(<<"d">>))
StoredPoints == {UserPoint, FarPoint}
TwinLocation == LocationData(<<"w">>, Num(3 * Scale), Num(0), <<"e">>)
NearLocation == LocationData(<<"n">>, Num(2 * Scale), Num(Scale + Scale \div 2), <<"d">>)
BundledLocations == {FarLocation, TwinLocation, NearLocation}

\* The sequences over set S of length at most n.
SeqsUpTo(S, n) == UNION {[1..k -> S] : k \in 0..n}

MergeInit ==
    /\ \E cs \in SeqsUpTo(StoredPoints, MaxSaved) : Mount(Persist(cs))
    /\ locationsFile \in SeqsUpTo(BundledLocations, MaxSaved)
    /\ now = 1

(***************************************************************************)
(* Event handlers.                                                         *)
(***************************************************************************)
\* onChange of the input
OnChange(v) ==
    /\ alerted' = FALSE
    /\ coords' = v
    /\ committed' = (IF v # coords THEN FALSE ELSE committed)
    /\ UNCHANGED <<lat, lon, savedCoords, searchVars, locationsFetch, locationsFile, deleted,
                   now>>
    /\ Commit(FALSE)

\* coords.split(",").map((v) => parseFloat(v.trim())), destructured: a
\* missing second part is undefined, for which isNaN holds.
ShowParts(text) ==
    LET parts == Split(text)
        parsed == [i \in 1..Len(parts) |-> ParseFloat(Trim(parts[i]))]
    IN  [latitude |-> parsed[1],
         longitude |-> IF Len(parsed) >= 2 THEN parsed[2] ELSE NaN]

InvalidInput(text) == IsNaN(ShowParts(text).latitude) \/ IsNaN(ShowParts(text).longitude)

\* HandleShow closing the suggestion panel before it looks at the input.
HandleShow_ClosesPanelFirst ==
    /\ showSuggestions' = FALSE
    /\ IF ~InvalidInput(coords)
       THEN /\ lat' = Some(ShowParts(coords).latitude)
            /\ lon' = Some(ShowParts(coords).longitude)
            /\ alerted' = FALSE
       ELSE /\ alerted' = TRUE
            /\ UNCHANGED <<lat, lon>>
    /\ UNCHANGED <<coords, savedCoords, suggestions, selectedIndex, requests, latestQuery,
                   shownFor, locationsFetch, locationsFile, deleted, committed, now>>
    /\ Commit(FALSE)

\* handleShow; the else branch alerts.
HandleShow ==
    /\ IF ~InvalidInput(coords)
       THEN /\ lat' = Some(ShowParts(coords).latitude)
            /\ lon' = Some(ShowParts(coords).longitude)
            /\ showSuggestions' = FALSE
            /\ alerted' = FALSE
       ELSE /\ alerted' = TRUE
            /\ UNCHANGED <<lat, lon, showSuggestions>>
    /\ UNCHANGED <<coords, savedCoords, suggestions, selectedIndex, requests, latestQuery,
                   shownFor, locationsFetch, locationsFile, deleted, committed, now>>
    /\ Commit(FALSE)

\* handleSelectPlace
HandleSelectPlace(place) ==
    /\ alerted' = FALSE
    /\ coords' = place.display_name
    /\ lat' = Some(ParseFloat(place.lat))
    /\ lon' = Some(ParseFloat(place.lon))
    /\ showSuggestions' = FALSE
    /\ suggestions' = <<>>
    /\ shownFor' = Null
    /\ committed' = TRUE
    /\ UNCHANGED <<selectedIndex, savedCoords, requests, latestQuery, locationsFetch,
                   locationsFile, deleted, now>>
    /\ Commit(FALSE)

\* coords || `${lat}, ${lon}`
NameOr(name, la, lo) ==
    IF name # <<>> THEN name
    ELSE NumberToString(la) \o <<",", " ">> \o NumberToString(lo)

\* newCoord of handleSaveCoord: the id is Date.now().toString().
NewCoord(clock, la, lo, text) ==
    SavedCoord(IntToString(clock), la, lo, NameOr(text, la, lo), Null)

\* handleSaveCoord; the Save button is rendered when lat and lon are set.
HandleSaveCoord ==
    /\ alerted' = FALSE
    /\ lat # Null /\ lon # Null
    /\ Len(savedCoords) < MaxSaved
    /\ savedCoords' = Append(savedCoords, NewCoord(now, lat[1], lon[1], coords))
    /\ deleted' = deleted \ {NewCoord(now, lat[1], lon[1], coords).id}
    /\ UNCHANGED <<coords, lat, lon, searchVars, locationsFetch, locationsFile,
                   committed, now>>
    /\ Commit(TRUE)

\* prev.filter((coord) => coord.id !== id)
DeleteCoord(prev, id) == SelectSeq(prev, LAMBDA coord : coord.id # id)

\* The Delete button of row i.
HandleDeleteCoord(i) ==
    /\ alerted' = FALSE
    /\ savedCoords' = DeleteCoord(savedCoords, savedCoords[i].id)
    /\ deleted' = deleted \cup {savedCoords[i].id}
    /\ UNCHANGED <<coords, lat, lon, searchVars, locationsFetch, locationsFile,
                   committed, now>>
    /\ Commit(TRUE)

\* A click on the name of row i.
HandleNavigateToCoord(i) ==
    LET coord == savedCoords[i]
    IN  /\ lat' = Some(coord.lat)
        /\ lon' = Some(coord.lon)
        /\ coords' = NameOr(coord.name, coord.lat, coord.lon)
        /\ alerted' = FALSE
        /\ UNCHANGED <<savedCoords, searchVars, locationsFetch, locationsFile, deleted,
                       committed, now>>
        /\ Commit(FALSE)

\* loadLocations once the fetch has settled: with the file, or with an
\* error or a response that is not ok.
LoadLocations(ok) ==
    /\ alerted' = FALSE
    /\ locationsFetch = "pending"
    /\ locationsFetch' = "done"
    /\ savedCoords' = IF ok THEN MergeLocations(savedCoords, NewCoords(locationsFile))
                      ELSE savedCoords
    /\ UNCHANGED <<coords, lat, lon, searchVars, locationsFile, deleted, committed, now>>
    /\ Commit(ok)

(***************************************************************************)
(* Timers and map events.                                                  *)
(***************************************************************************)
SetRefs(refs) ==
    \E r \in {refs} :
        /\ mapRef' = r.map
        /\ markersRef' = r.markers
        /\ currentLocationMarkerRef' = r.clm
        /\ mapTimers' = r.timers
        /\ lastId' = r.lastId

reactState == <<coords, lat, lon, savedCoords, searchVars, localStorage, searchTimers,
                locationsFetch, locationsFile, deleted, committed, now>>

\* setTimeout(() => handleMapViewChange(), 100) comes due: the closure of the
\* render that set it runs.
MapTimerFire ==
    /\ alerted' = FALSE
    /\ mapTimers # <<>>
    /\ SetRefs(HandleMapViewChange([Refs EXCEPT !.timers = Tail(mapTimers)], Head(mapTimers)))
    /\ UNCHANGED reactState

\* The listener bound with map.on(...) runs.
Listener(r) == HandleMapViewChange(r, r.map[1].listener)

\* The moveend that follows setView is delivered.
MoveEnd ==
    /\ alerted' = FALSE
    /\ mapRef # Null
    /\ mapRef[1].moving
    /\ SetRefs(Listener([Refs EXCEPT !.map = Some([mapRef[1] EXCEPT !.moving = FALSE])]))
    /\ UNCHANGED reactState

\* The user drags the map by one degree: dragend and moveend.
UserDrag(dlat, dlon) ==
    /\ alerted' = FALSE
    /\ mapRef # Null
    /\ LET center == <<mapRef[1].center[1] + dlat * Scale, mapRef[1].center[2] + dlon * Scale>>
       IN  /\ center[1] \in 0..(MaxCenter * Scale)
           /\ center[2] \in 0..(MaxCenter * Scale)
           /\ SetRefs(Listener([Refs EXCEPT !.map = Some([mapRef[1] EXCEPT !.center = center])]))
    /\ UNCHANGED reactState

\* The user zooms the map: zoomend and moveend.
UserZoom(zoom) ==
    /\ alerted' = FALSE
    /\ mapRef # Null
    /\ zoom # mapRef[1].zoom
    /\ SetRefs(Listener([Refs EXCEPT !.map = Some([mapRef[1] EXCEPT !.zoom = zoom])]))
    /\ UNCHANGED reactState

\* A millisecond passes.
Tick ==
    /\ alerted' = FALSE
    /\ now < MaxClock
    /\ now' = now + 1
    /\ UNCHANGED <<coords, lat, lon, savedCoords, searchVars, localStorage, searchTimers,
                   locationsFetch, locationsFile, deleted, committed, mapRef, markersRef,
                   currentLocationMarkerRef, mapTimers, lastId>>

\* The page is loaded again: the component is torn down with its timers and
\* requests, and mounted on what localStorage holds.
Reload ==
    /\ coords' = <<>>
    /\ lat' = Null
    /\ lon' = Null
    /\ suggestions' = <<>>
    /\ showSuggestions' = FALSE
    /\ selectedIndex' = -1
    /\ savedCoords' = InitialSavedCoords(localStorage)
    /\ mapRef' = Null
    /\ markersRef' = <<>>
    /\ currentLocationMarkerRef' = Null
    /\ localStorage' = Persist(InitialSavedCoords(localStorage))
    /\ searchTimers' = << <<>> >>
    /\ mapTimers' = <<>>
    /\ requests' = <<>>
    /\ locationsFetch' = "pending"
    /\ lastId' = 0
    /\ alerted' = FALSE
    /\ committed' = FALSE
    /\ latestQuery' = Null
    /\ shownFor' = Null
    /\ UNCHANGED <<locationsFile, deleted, now>>

(***************************************************************************)
(* Place search.                                                           *)
(***************************************************************************)
refVars == <<mapRef, markersRef, currentLocationMarkerRef, mapTimers, lastId>>

\* A request in flight: sent, or answered and on its way back.
Request(q) == [q |-> q, status |-> "sent", data |-> <<>>]

RemoveAt(seq, i) == SubSeq(seq, 1, i - 1) \o SubSeq(seq, i + 1, Len(seq))

\* NoSearch measuring the text as typed, not trimmed.
NoSearch_Untrimmed(text) == Len(text) < 3 \/ CoordMatch(text)

\* The guard of searchPlaces: the query is too short or a coordinate pair.
NoSearch(text) == Len(Trim(text)) < 3 \/ CoordMatch(text)

\* The 300 ms timer comes due: searchPlaces, a closure over coords, runs up
\* to its await.
SearchTimerFire ==
    /\ alerted' = FALSE
    /\ searchTimers # <<>>
    /\ searchTimers' = Tail(searchTimers)
    /\ IF NoSearch(Head(searchTimers))
       THEN /\ suggestions' = <<>>
            /\ shownFor' = Null
            /\ UNCHANGED <<requests, latestQuery>>
       ELSE /\ Len(requests) < MaxRequests
            /\ requests' = Append(requests, Request(Head(searchTimers)))
            /\ latestQuery' = Some(Head(searchTimers))
            /\ UNCHANGED <<suggestions, shownFor>>
    /\ UNCHANGED <<coords, lat, lon, savedCoords, showSuggestions, selectedIndex,
                   localStorage, locationsFetch, locationsFile, deleted, committed,
                   now, refVars>>

\* The geocoding service answers request i, or the request fails.
Serve(i, ok, data) ==
    /\ alerted' = FALSE
    /\ requests[i].status = "sent"
    /\ requests' = [requests EXCEPT ![i] = [@ EXCEPT !.status = IF ok THEN "ok" ELSE "error",
                                                     !.data = IF ok THEN data ELSE <<>>]]
    /\ UNCHANGED <<coords, lat, lon, savedCoords, suggestions, showSuggestions,
                   selectedIndex, latestQuery, shownFor, localStorage, searchTimers,
                   locationsFetch, locationsFile, deleted, committed, now, refVars>>

\* SearchResume dropping the answer to any request but the one issued last.
SearchResume_Sequenced(i) ==
    /\ alerted' = FALSE
    /\ requests[i].status # "sent"
    /\ requests' = RemoveAt(requests, i)
    /\ IF Some(requests[i].q) # latestQuery
       THEN UNCHANGED <<suggestions, showSuggestions, selectedIndex, shownFor>>
       ELSE IF requests[i].status = "ok"
       THEN /\ suggestions' = requests[i].data
            /\ showSuggestions' = TRUE
            /\ selectedIndex' = -1
            /\ shownFor' = Some(requests[i].q)
       ELSE /\ suggestions' = <<>>
            /\ shownFor' = Null
            /\ UNCHANGED <<showSuggestions, selectedIndex>>
    /\ UNCHANGED <<coords, lat, lon, savedCoords, latestQuery, localStorage, searchTimers,
                   locationsFetch, locationsFile, deleted, committed, now, mapRef,
                   markersRef,
                   currentLocationMarkerRef, mapTimers, lastId>>

\* searchPlaces resumes after its awaits with the answer to request i.
SearchResume(i) ==
    /\ alerted' = FALSE
    /\ requests[i].status # "sent"
    /\ requests' = RemoveAt(requests, i)
    /\ IF requests[i].status = "ok"
       THEN /\ suggestions' = requests[i].data
            /\ showSuggestions' = TRUE
            /\ selectedIndex' = -1
            /\ shownFor' = Some(requests[i].q)
       ELSE /\ suggestions' = <<>>
            /\ shownFor' = Null
            /\ UNCHANGED <<showSuggestions, selectedIndex>>
    /\ UNCHANGED <<coords, lat, lon, savedCoords, latestQuery, localStorage, searchTimers,
                   locationsFetch, locationsFile, deleted, committed, now, refVars>>

\* The suggestion panel is rendered.
PanelOpen == showSuggestions /\ Len(suggestions) > 0

\* onClick of suggestion i (counted from 1).
ClickSuggestion(i) ==
    /\ PanelOpen
    /\ HandleSelectPlace(suggestions[i])

\* onMouseEnter of suggestion i (counted from 1).
MouseEnter(i) ==
    /\ alerted' = FALSE
    /\ PanelOpen
    /\ selectedIndex' = i - 1
    /\ UNCHANGED <<coords, lat, lon, savedCoords, suggestions, showSuggestions, requests,
                   latestQuery, shownFor, localStorage, searchTimers, locationsFetch,
                   locationsFile, deleted, committed, now, refVars>>

\* A task that sets no state.
NoUpdate ==
    /\ alerted' = FALSE
    /\ UNCHANGED <<coords, lat, lon, savedCoords, searchVars, localStorage, searchTimers,
                   locationsFetch, locationsFile, deleted, committed, now, refVars>>

\* handleKeyDown
HandleKeyDown(key) ==
    IF key = "ArrowDown"
    THEN /\ alerted' = FALSE
         /\ selectedIndex' = IF selectedIndex < Len(suggestions) - 1
                             THEN selectedIndex + 1 ELSE selectedIndex
         /\ UNCHANGED <<coords, lat, lon, savedCoords, suggestions, showSuggestions,
                        requests, latestQuery, shownFor, localStorage, searchTimers,
                        locationsFetch, locationsFile, deleted, committed, now, refVars>>
    ELSE IF key = "ArrowUp"
    THEN /\ alerted' = FALSE
         /\ selectedIndex' = IF selectedIndex > 0 THEN selectedIndex - 1 ELSE -1
         /\ UNCHANGED <<coords, lat, lon, savedCoords, suggestions, showSuggestions,
                        requests, latestQuery, shownFor, localStorage, searchTimers,
                        locationsFetch, locationsFile, deleted, committed, now, refVars>>
    ELSE IF key = "Enter" /\ selectedIndex >= 0
    THEN \* suggestions[selectedIndex] is undefined past the end: reading
         \* display_name of it throws before any state is set
         IF selectedIndex + 1 <= Len(suggestions)
         THEN HandleSelectPlace(suggestions[selectedIndex + 1])
         ELSE NoUpdate
    ELSE IF key = "Escape"
    THEN /\ alerted' = FALSE
         /\ showSuggestions' = FALSE
         /\ UNCHANGED <<coords, lat, lon, savedCoords, suggestions, selectedIndex,
                        requests, latestQuery, shownFor, localStorage, searchTimers,
                        locationsFetch, locationsFile, deleted, committed, now, refVars>>
    ELSE NoUpdate

\* onFocus of the input
OnFocus ==
    /\ alerted' = FALSE
    /\ showSuggestions' = (IF Len(suggestions) > 0 THEN TRUE ELSE showSuggestions)
    /\ UNCHANGED <<coords, lat, lon, savedCoords, suggestions, selectedIndex, requests,
                   latestQuery, shownFor, localStorage, searchTimers, locationsFetch,
                   locationsFile, deleted, committed, now, refVars>>

\* handleClickOutside, for a mousedown outside the input and the panel
HandleClickOutside ==
    /\ alerted' = FALSE
    /\ showSuggestions' = FALSE
    /\ UNCHANGED <<coords, lat, lon, savedCoords, suggestions, selectedIndex, requests,
                   latestQuery, shownFor, localStorage, searchTimers, locationsFetch,
                   locationsFile, deleted, committed, now, refVars>>

(***************************************************************************)
(* Specifications.                                                         *)
(***************************************************************************)
\* The saved-point store: the collection, its ids and its persistence.
Next ==
    \/ \E v \in StoreInputs : OnChange(v)
    \/ HandleShow
    \/ HandleSaveCoord
    \/ \E i \in 1..Len(savedCoords) : HandleDeleteCoord(i)
    \/ \E ok \in BOOLEAN : LoadLocations(ok)
    \/ MapTimerFire
    \/ Tick
    \/ Reload

Spec == Init /\ [][Next]_vars

\* The map: the render surface, its viewport and its markers.
MapNext ==
    \/ \E v \in MapInputs : OnChange(v)
    \/ HandleShow
    \/ HandleSaveCoord
    \/ \E i \in 1..Len(savedCoords) : HandleDeleteCoord(i)
    \/ \E i \in 1..Len(savedCoords) : HandleNavigateToCoord(i)
    \/ \E ok \in BOOLEAN : LoadLocations(ok)
    \/ MapTimerFire
    \/ MoveEnd
    \/ \E d \in {<<1, 0>>, <<-1, 0>>, <<0, 1>>, <<0, -1>>} : UserDrag(d[1], d[2])
    \/ \E zoom \in (InitialZoom - ZoomOut)..InitialZoom : UserZoom(zoom)

MapSpec == Init /\ [][MapNext]_vars

\* The cascade that a change of the focus or of the collection sets off, with
\* the event loop delivering what is pending: a timer that is due fires, a
\* settle event that was emitted is dispatched.
CascadeNext ==
    \/ \E v \in MapInputs : OnChange(v)
    \/ HandleShow
    \/ HandleSaveCoord
    \/ \E i \in 1..Len(savedCoords) : HandleNavigateToCoord(i)
    \/ \E ok \in BOOLEAN : LoadLocations(ok)
    \/ MapTimerFire
    \/ MoveEnd

LiveMapSpec ==
    Init /\ [][CascadeNext]_vars /\ WF_vars(MapTimerFire) /\ WF_vars(MoveEnd)

\* The merge of the bundled locations, over stored collections and files.
MergeNext ==
    \/ \E ok \in BOOLEAN : LoadLocations(ok)
    \/ Reload

MergeSpec == MergeInit /\ [][MergeNext]_vars

\* The place search.
SearchNext ==
    \/ \E v \in SearchInputs : OnChange(v)
    \/ SearchTimerFire
    \/ \E i \in 1..Len(requests), ok \in BOOLEAN, data \in SearchResults : Serve(i, ok, data)
    \/ \E i \in 1..Len(requests) : SearchResume(i)
    \/ \E i \in 1..Len(suggestions) : ClickSuggestion(i)
    \/ \E i \in 1..Len(suggestions) : MouseEnter(i)
    \/ \E key \in {"ArrowDown", "ArrowUp", "Enter", "Escape"} : HandleKeyDown(key)
    \/ OnFocus
    \/ HandleClickOutside

SearchSpec == Init /\ [][SearchNext]_vars

\* The coordinate parser behind Show on Map, with the search that fills the
\* panel.
ParserNext ==
    \/ \E v \in ParserInputs : OnChange(v)
    \/ HandleShow
    \/ MapTimerFire
    \/ SearchTimerFire
    \/ \E i \in 1..Len(requests) : Serve(i, TRUE, <<Tlv, Jaffa>>)
    \/ \E i \in 1..Len(requests) : SearchResume(i)

ParserSpec == Init /\ [][ParserNext]_vars

(***************************************************************************)
(* Properties.                                                             *)
(***************************************************************************)
Range(seq) == {seq[i] : i \in 1..Len(seq)}
Ids(cs) == {cs[i].id : i \in 1..Len(cs)}

\* The map is up and nothing it was told to do is outstanding.
Settled == mapRef # Null /\ mapTimers = <<>> /\ ~mapRef[1].moving

\* p lies in bounding box b, the bounds included.
Within(p, b) ==
    /\ b.minLat <= Val(p.lat) /\ Val(p.lat) <= b.maxLat
    /\ b.minLon <= Val(p.lon) /\ Val(p.lon) <= b.maxLon

\* The circle markers for the points of cs inside the view of map, in order.
Expected(cs, map) ==
    LET inside == SelectSeq(cs, LAMBDA p : Within(p, GetBounds(map)))
    IN  [i \in 1..Len(inside) |-> CircleMarker(inside[i])]

\* C1: when the map is up and every effect, timer and settle event has run,
\* the circle markers on the map are exactly those of the saved points of
\* the current collection inside the current viewport, and the map holds
\* exactly one focus marker.
C1_MarkersMatchViewport ==
    Settled =>
        /\ SelectSeq(mapRef[1].layers, LAMBDA l : l.kind = "circle")
              = Expected(savedCoords, mapRef[1])
        /\ Cardinality({i \in 1..Len(mapRef[1].layers) :
                            mapRef[1].layers[i].kind = "marker"}) = 1

\* A settled map that shows some saved points and hides others.
C1_Witness ==
    /\ Settled
    /\ Len(markersRef) >= 1
    /\ Len(markersRef) < Len(savedCoords)
    /\ Len(savedCoords) >= 3

\* C2: once the render surface exists it stays the same surface: no step
\* destroys it or puts another in its place.
C2_SurfacePersists ==
    [][mapRef # Null => (mapRef' # Null /\ mapRef'[1].id = mapRef[1].id)]_vars

\* C3: no two saved points of the collection have the same id.
C3_UniqueIds ==
    \A i, j \in 1..Len(savedCoords) :
        i # j => savedCoords[i].id # savedCoords[j].id

\* C4: with the focus set, saving the focus and then deleting the id the
\* save assigned gives back the collection as it was.
C4_SaveDeleteRoundTrip ==
    (lat # Null /\ lon # Null) =>
        LET newCoord == NewCoord(now, lat[1], lon[1], coords)
        IN  DeleteCoord(Append(savedCoords, newCoord), newCoord.id) = savedCoords

\* C5: merging the bundled locations into a collection they were already
\* merged into adds nothing: size and order stay.
C5_MergeIdempotent ==
    LET newCoords == NewCoords(locationsFile)
        once == MergeLocations(savedCoords, newCoords)
    IN  MergeLocations(once, newCoords) = once

\* A merge has added a bundled point to a collection that was not empty.
C5_Witness ==
    /\ locationsFetch = "done"
    /\ Len(savedCoords) >= 2
    /\ savedCoords[1] \notin Range(NewCoords(locationsFile))
    /\ savedCoords[Len(savedCoords)] \in Range(NewCoords(locationsFile))
    /\ Len(locationsFile) > Cardinality(Ids(NewCoords(locationsFile)))

\* C6: the points the recompute draws markers for are the saved points with
\* minLat <= lat <= maxLat and minLon <= lon <= maxLon, the bounds included.
C6_VisibleSubset ==
    mapRef # Null =>
        LET b == GetBounds(mapRef[1])
            drawn == HandleMapViewChange(Refs, savedCoords).markers
        IN  Range(drawn) =
              {CircleMarker(p) : p \in {q \in Range(savedCoords) :
                  /\ b.minLat <= Val(q.lat) /\ Val(q.lat) <= b.maxLat
                  /\ b.minLon <= Val(q.lon) /\ Val(q.lon) <= b.maxLon}}

\* A marker is drawn for a point on the northern or the eastern bound of the
\* view, while another point is outside.
C6_Witness ==
    /\ mapRef # Null
    /\ \E i \in 1..Len(markersRef) :
          \/ Val(markersRef[i].lat) = GetBounds(mapRef[1]).maxLat
          \/ Val(markersRef[i].lon) = GetBounds(mapRef[1]).maxLon
    /\ Len(markersRef) < Len(savedCoords)

\* C7: the item under the storage key is the serialization of the whole
\* current collection, and parses back to it.
C7_StorageAgrees ==
    /\ localStorage = Some(JSON_stringify(savedCoords))
    /\ JSON_parse(localStorage[1]) = savedCoords

\* A collection of a user's point and a bundled point, persisted after a
\* delete.
C7_Witness ==
    /\ Len(savedCoords) = 2
    /\ \E i, j \in 1..2 : savedCoords[i].description = Null /\ savedCoords[j].description # Null
    /\ locationsFetch = "done"
    /\ Len(localStorage[1].items) = 2

\* The text is too short once trimmed, or has the shape <number>,<number>.
ShortOrCoordinates(text) == Len(Trim(text)) < 3 \/ CoordMatch(text)

\* The 300 ms timer that was pending longest has come due in this step.
TimerFired == Len(searchTimers') < Len(searchTimers)

\* C8: no request in flight is for a text that is too short once trimmed or
\* a coordinate pair, and when the timer comes due on such a text no request
\* is issued and the suggestions become empty.
C8_NoSearchForShortOrCoordinates ==
    /\ [](\A i \in 1..Len(requests) : ~ShortOrCoordinates(requests[i].q))
    /\ [][(TimerFired /\ ShortOrCoordinates(Head(searchTimers)))
            => (requests' = requests /\ suggestions' = <<>>)]_vars

\* The timer came due on a padded two-letter text after an answer had
\* opened the panel: the suggestions are gone and nothing was asked.
C8_Witness ==
    /\ coords = <<" ", "a", "b", " ">>
    /\ searchTimers = <<>>
    /\ requests = <<>>
    /\ showSuggestions
    /\ suggestions = <<>>
    /\ shownFor = Null

\* C9: at most one 300 ms timer is pending and it is for the current input;
\* a request is issued only for the text that is the input when the timer
\* comes due; an input change leaves the requests in flight as they are.
C9_OneTimerNoCancel ==
    /\ [](Len(searchTimers) <= 1 /\ (searchTimers # <<>> => searchTimers[1] = coords))
    /\ [][Len(requests') > Len(requests) => requests'[Len(requests')].q = coords]_vars
    /\ [][coords' # coords => requests' = requests]_vars

\* The input changed while a request was in flight: the request is still in
\* flight and the one timer pending is for the new input.
C9_Witness ==
    /\ requests # <<>>
    /\ searchTimers # <<>>
    /\ requests[1].q # coords
    /\ coords # <<>>

\* C10: whichever request an answer belongs to, and whatever the input is
\* by then, the answer replaces the suggestions and opens the panel.
C10_AnswersAppliedAsTheyArrive ==
    [][\A i \in 1..Len(requests) :
          (requests[i].status = "ok" /\ requests' = RemoveAt(requests, i))
              => (suggestions' = requests[i].data /\ showSuggestions' /\ selectedIndex' = -1)]_vars

\* The panel shows the suggestions of a query other than the one asked last.
C10_Witness ==
    /\ PanelOpen
    /\ shownFor # Null
    /\ latestQuery # Null
    /\ shownFor # latestQuery

\* The text is a number: an optional sign, digits, an optional decimal part.
IsNumberText(s) ==
    LET a == IF 1 <= Len(s) /\ s[1] = "-" THEN 2 ELSE 1
        b == SkipWhile(s, a, DigitSet)
        c == IF b <= Len(s) /\ s[b] = "." THEN SkipWhile(s, b + 1, DigitSet) ELSE b
    IN  b > a /\ c = Len(s) + 1

\* The text has the shape <number>,<number>, white space around the halves
\* allowed.
CoordShape(text) ==
    /\ Len(Split(text)) = 2
    /\ IsNumberText(Trim(Split(text)[1]))
    /\ IsNumberText(Trim(Split(text)[2]))

\* Show on Map was pressed and gave a new focus.
ShowAccepted ==
    /\ coords' = coords
    /\ ~alerted'
    /\ lat' # lat \/ lon' # lon

\* Show on Map was pressed and raised the error.
ShowRejected == alerted'

\* C11: Show on Map takes an input only if it has the shape
\* <number>,<number>, and then the focus is the two parsed values; it
\* rejects an input only if it does not have that shape.
C11_ShowAcceptsExactlyPairs ==
    [][/\ ShowAccepted =>
            /\ CoordShape(coords)
            /\ lat' = Some(ParseFloat(Trim(Split(coords)[1])))
            /\ lon' = Some(ParseFloat(Trim(Split(coords)[2])))
       /\ ShowRejected => ~CoordShape(coords)]_vars

\* C12: when Show on Map raises the error, the focus, the collection, the
\* map with its markers and the suggestion state are as they were.
C12_RejectedShowChangesNothing ==
    [][ShowRejected =>
          UNCHANGED <<lat, lon, savedCoords, mapRef, markersRef, currentLocationMarkerRef,
                      suggestions, showSuggestions, selectedIndex>>]_vars

\* The error was raised with a map up and the suggestion panel open.
C12_Witness ==
    /\ alerted
    /\ InvalidInput(coords)
    /\ mapRef # Null
    /\ PanelOpen

\* The focus has changed in this step, the map being up before it.
FocusChanged == mapRef # Null /\ lat' # Null /\ lon' # Null /\ (lat' # lat \/ lon' # lon)

\* C13: when the focus changes with the map up, the map is centred on the
\* new focus and its zoom is the zoom it had before the change.
C13_RecenterKeepsZoom ==
    [][FocusChanged =>
          /\ mapRef' # Null
          /\ mapRef'[1].center = <<Val(lat'[1]), Val(lon'[1])>>
          /\ mapRef'[1].zoom = mapRef[1].zoom]_vars

\* C14: when the focus changes with the focus marker on the map, the marker
\* after the change is the same object, at the new focus.
C14_FocusMarkerMovedInPlace ==
    [][(FocusChanged /\ currentLocationMarkerRef # Null) =>
          /\ currentLocationMarkerRef' # Null
          /\ currentLocationMarkerRef'[1].id = currentLocationMarkerRef[1].id
          /\ currentLocationMarkerRef'[1].lat = lat'[1]
          /\ currentLocationMarkerRef'[1].lon = lon'[1]]_vars

\* What the event loop still owes the map: the 100 ms timers pending and the
\* settle event of a recenter.
Pending == Len(mapTimers) + (IF mapRef # Null /\ mapRef[1].moving THEN 1 ELSE 0)

\* C15: a recompute run by a timer or by a settle event changes no state,
\* leaves the view where it is and leaves less pending than before; so once
\* the user events stop, nothing stays pending.
C15_CascadeEnds ==
    /\ [][(MapTimerFire \/ MoveEnd) =>
              /\ Pending' < Pending
              /\ UNCHANGED <<coords, lat, lon, savedCoords, localStorage>>
              /\ mapRef # Null =>
                    /\ mapRef' # Null
                    /\ mapRef'[1].center = mapRef[1].center
                    /\ mapRef'[1].zoom = mapRef[1].zoom]_vars
    /\ <>[][MapTimerFire \/ MoveEnd]_vars => <>[](Pending = 0)

\* A map built again after the first has come to rest with a saved point
\* drawn.
C15_Witness ==
    /\ mapRef # Null
    /\ Pending = 0
    /\ mapRef[1].id # 1
    /\ lat # Some(Num(Scale))
    /\ markersRef # <<>>

\* C16: the selection cursor is -1 or the index of a suggestion of the list.
C16_CursorInRange == selectedIndex \in -1..(Len(suggestions) - 1)

\* C17: from the commit of a suggestion until the input is edited, the list
\* is empty, the panel is closed and no search request is made for the
\* committed text.
C17_CommitStaysClosed ==
    committed =>
        /\ suggestions = <<>>
        /\ ~showSuggestions
        /\ \A i \in 1..Len(requests) : requests[i].q # coords

\* A recompute has run in this step and a map is up after it: a 100 ms timer
\* came due, or the map or the markers drawn on it changed.
Recomputed ==
    /\ mapRef' # Null
    /\ \/ Len(mapTimers') < Len(mapTimers)
       \/ markersRef' # markersRef
       \/ mapRef' # mapRef

\* C18: after every recompute, the one run by the 100 ms timer included, the
\* markers drawn are those of the collection as it is then, inside the view
\* as it is then.
C18_RecomputeUsesCurrentCollection ==
    [][Recomputed => markersRef' = Expected(savedCoords', mapRef'[1])]_vars

\* C19: no id removed by Delete is in the collection, whatever reloads
\* and merges of the bundled locations have followed.
C19_DeletedStaysDeleted == \A id \in deleted : id \notin Ids(savedCoords)

\* C20: a step that changes the collection with the map up leaves the focus
\* where it is, and the map's centre and zoom as the user had them.
C20_StoreLeavesViewAlone ==
    [][(savedCoords' # savedCoords /\ mapRef # Null) =>
          /\ lat' = lat /\ lon' = lon
          /\ mapRef' # Null
          /\ mapRef'[1].center = mapRef[1].center
          /\ mapRef'[1].zoom = mapRef[1].zoom]_vars

====
